---- MODULE Spec2Model ----
(***************************************************************************)
(* Model of main.py: a FastAPI backend with two static routes, a database  *)
(* diagnostics route (GET /test) and two routes that proxy the W&B GraphQL *)
(* API (GET /api/wandb/runs, GET /api/wandb/run).                          *)
(*                                                                         *)
(* Every request is handled independently and the process keeps no state   *)
(* between requests except its environment, so the state is the process    *)
(* environment plus the last request handled: its inputs (req), the reply  *)
(* the upstream gave to its outbound POST (upstream), the POSTs it issued  *)
(* (posts) and the HTTP response it ended with (resp).                     *)
(*                                                                         *)
(* Python values are records [t |-> <type name>, v |-> <payload>].  A str  *)
(* used as message text is a sequence of code points; a dict is the        *)
(* sequence of its <<key, value>> items in insertion order.                *)
(***************************************************************************)
EXTENDS Integers, Sequences, FiniteSets, TLC

VARIABLES env, req, upstream, posts, resp

vars == <<env, req, upstream, posts, resp>>

---------------------------------------------------------------------------
(* Program constants *)

\* resp.text[:200] and str(e)[:200] in both proxy handlers
ErrorTextLimit == 200
\* str(e)[:50] in test_database
DiagTextLimit == 50
\* collections[:10] in test_database
CollectionsShown == 10
\* list(slim_metrics.items())[:12]
MetricsShown == 12
\* Query(25, ge=1, le=200)
DefaultLimit == 25
LimitMin == 1
LimitMax == 200
\* HTTP status of FastAPI's RequestValidationError for a rejected Query parameter
ValidationStatus == 422
\* requests.post(..., timeout=20)
PostTimeout == 20

(* Bounds of the model *)

\* a text is at most this many characters longer than the limit that cuts it
MaxExtra == 3
\* entries of an upstream summaryMetrics mapping
MaxEntries == 14
\* entries of an upstream GraphQL errors array
MaxErrors == 3
\* run edges of an upstream project
MaxRuns == 2
\* how far outside [LimitMin, LimitMax] a requested limit lies
LimitSpread == 2

---------------------------------------------------------------------------
(* Python values *)

PyNone == [t |-> "NoneType", v |-> 0]
PyInt(n) == [t |-> "int", v |-> n]
\* a float is identified by a number; only its type matters to the code
PyFloat(n) == [t |-> "float", v |-> n]
PyBool(b) == [t |-> "bool", v |-> IF b THEN 1 ELSE 0]
PyStr(s) == [t |-> "str", v |-> s]
PyList(s) == [t |-> "list", v |-> s]
PyDict(items) == [t |-> "dict", v |-> items]

Min(a, b) == IF a < b THEN a ELSE b

\* s[:n] for n >= 0
Take(s, n) == SubSeq(s, 1, Min(n, Len(s)))

\* Python truth value, as used by `not x` and `x or y`
Truthy(x) ==
  CASE x.t = "NoneType" -> FALSE
    [] x.t \in {"int", "float", "bool"} -> x.v # 0
    [] OTHER -> Len(x.v) > 0

\* x or y
PyOr(x, y) == IF Truthy(x) THEN x ELSE y

\* k in d, for a dict d
HasKey(d, k) == \E i \in 1..Len(d.v) : d.v[i][1] = k

\* d.get(k, default), for a dict d
Get(d, k, default) ==
  IF HasKey(d, k)
    THEN d.v[CHOOSE i \in 1..Len(d.v) : d.v[i][1] = k][2]
    ELSE default

\* items after d[k] = v: a new key goes last, an old key keeps its place
DictSet(items, k, v) ==
  IF \E i \in 1..Len(items) : items[i][1] = k
    THEN [i \in 1..Len(items) |-> IF items[i][1] = k THEN <<k, v>> ELSE items[i]]
    ELSE Append(items, <<k, v>>)

\* isinstance(v, (int, float)); Python's bool is a subclass of int
IsIntOrFloat(v) == v.t \in {"int", "float", "bool"}

---------------------------------------------------------------------------
(* json.loads on the text of a summaryMetrics string.                      *)
(* A JSON text is a sequence of tokens <<kind, id>>: the punctuation       *)
(* "{" "}" ":" ",", a key literal <<"key", i>> (the name MetricKeys[i]), a  *)
(* number literal <<"int", n>> or <<"float", n>>, the literals true, false *)
(* and null, a string literal <<"strlit", j>> whose content is             *)
(* StrLitContent(j), a nested array <<"array", k>> or object               *)
(* <<"object", k>> of k entries, and <<"junk", 0>>, text that is no JSON.   *)

MetricKeys ==
  <<"loss", "acc", "lr", "epoch", "step", "val_loss", "val_acc", "f1",
    "precision", "recall", "auc", "grad_norm", "runtime", "tokens",
    "throughput", "best", "_wandb">>

KeyIndex(k) == CHOOSE i \in 1..Len(MetricKeys) : MetricKeys[i] = k

TokLBrace == <<"{", 0>>
TokRBrace == <<"}", 0>>
TokColon == <<":", 0>>
TokComma == <<",", 0>>
TokJunk == <<"junk", 0>>

ValueTokenKinds ==
  {"int", "float", "true", "false", "null", "strlit", "array", "object"}

\* the str a string literal denotes, as a text: not JSON, the JSON text
\* {"loss": 1}, the empty text, the JSON text 7
StrLitContent(j) ==
  CASE j = 1 -> <<TokJunk>>
    [] j = 2 -> <<TokLBrace, <<"key", 1>>, TokColon, <<"int", 1>>, TokRBrace>>
    [] j = 3 -> <<>>
    [] OTHER -> <<<<"int", 7>>>>

StrLits == 1..4

\* the value a value token decodes to
TokenValue(tok) ==
  CASE tok[1] = "int" -> PyInt(tok[2])
    [] tok[1] = "float" -> PyFloat(tok[2])
    [] tok[1] = "true" -> PyBool(TRUE)
    [] tok[1] = "false" -> PyBool(FALSE)
    [] tok[1] = "null" -> PyNone
    [] tok[1] = "strlit" -> PyStr(StrLitContent(tok[2]))
    [] tok[1] = "array" -> PyList([i \in 1..tok[2] |-> PyInt(i)])
    [] OTHER -> PyDict([i \in 1..tok[2] |-> <<MetricKeys[i], PyInt(i)>>])

\* the members of an object text, between its braces: key : value , ...
WellFormedMembers(m) ==
  /\ Len(m) % 4 = 3
  /\ \A j \in 1..Len(m) :
       CASE j % 4 = 1 -> m[j][1] = "key"
         [] j % 4 = 2 -> m[j] = TokColon
         [] j % 4 = 3 -> m[j][1] \in ValueTokenKinds
         [] OTHER -> m[j] = TokComma

RECURSIVE MembersToItems(_, _)
MembersToItems(m, acc) ==
  IF Len(m) < 3
    THEN acc
    ELSE MembersToItems(SubSeq(m, 5, Len(m)),
                        DictSet(acc, MetricKeys[m[1][2]], TokenValue(m[3])))

\* json.loads(s): ok is FALSE where it raises
JsonLoads(s) ==
  IF Len(s) = 1 /\ s[1][1] \in ValueTokenKinds
    THEN [ok |-> TRUE, val |-> TokenValue(s[1])]
  ELSE IF Len(s) = 2 /\ s[1] = TokLBrace /\ s[2] = TokRBrace
    THEN [ok |-> TRUE, val |-> PyDict(<<>>)]
  ELSE IF /\ Len(s) > 2
          /\ s[1] = TokLBrace
          /\ s[Len(s)] = TokRBrace
          /\ WellFormedMembers(SubSeq(s, 2, Len(s) - 1))
    THEN [ok |-> TRUE,
          val |-> PyDict(MembersToItems(SubSeq(s, 2, Len(s) - 1), <<>>))]
  ELSE [ok |-> FALSE, val |-> PyNone]

---------------------------------------------------------------------------
(* Response shaping *)

DecodeSummaryMutant(summary) == summary
\* lines 147-153 and 227-233: a str summary is decoded, None where that raises
DecodeSummary(summary) ==
  IF summary.t = "str"
    THEN IF JsonLoads(summary.v).ok THEN JsonLoads(summary.v).val ELSE PyNone
    ELSE summary

RECURSIVE NumericItems(_, _)
\* for k, v in summary.items(): if isinstance(v, (int, float)): slim_metrics[k] = v
NumericItems(items, acc) ==
  IF Len(items) = 0
    THEN acc
    ELSE NumericItems(Tail(items),
                      IF IsIntOrFloat(Head(items)[2])
                        THEN DictSet(acc, Head(items)[1], Head(items)[2])
                        ELSE acc)

\* lines 155-161: the numeric entries of a dict summary, cut to the first 12
SlimMetrics(summary) ==
  IF summary.t = "dict"
    THEN PyDict(Take(NumericItems(summary.v, <<>>), MetricsShown))
    ELSE PyDict(<<>>)

---------------------------------------------------------------------------
(* Texts and HTTP responses *)

\* a str of message text: one <<"c", code point>> per character
Chars(points) == [i \in 1..Len(points) |-> <<"c", points[i]>>]

\* some text of n characters whose characters differ along its length
Txt(n) == [i \in 1..n |-> <<"c", 97 + (i % 26)>>]

\* "Unknown error"
UnknownError ==
  Chars(<<85, 110, 107, 110, 111, 119, 110, 32, 101, 114, 114, 111, 114>>)

\* "; "
Separator == Chars(<<59, 32>>)

\* str(e) of an exception the interpreter raises on a value of the wrong type
\* (AttributeError, TypeError): a short fixed message
InterpreterMessage == Txt(33)

RECURSIVE Join(_)
\* "; ".join(msgs)
Join(msgs) ==
  IF Len(msgs) = 0 THEN <<>>
  ELSE IF Len(msgs) = 1 THEN Head(msgs)
  ELSE Head(msgs) \o Separator \o Join(Tail(msgs))

NoDetail == [prefix |-> "", text |-> <<>>]

\* a JSON response of the given status
Response(status, body) == [status |-> status, detail |-> NoDetail, body |-> body]

\* raise HTTPException(status_code=status, detail=f"{prefix}{text}")
HTTPException(status, prefix, text) ==
  [status |-> status, detail |-> [prefix |-> prefix, text |-> text], body |-> PyNone]

\* FastAPI's answer to a request whose query parameters fail validation
ValidationError ==
  HTTPException(ValidationStatus, "validation error", <<>>)

\* lines 181-182 and 237-238: except Exception as e
ServerError(text) ==
  HTTPException(500, "Server error contacting W&B: ", Take(text, ErrorTextLimit))

\* lines 129-130 and 216-217
UpstreamErrorMutant(reply) ==
  HTTPException(500, "Server error contacting W&B: ", Take(reply.text, ErrorTextLimit))
UpstreamError(reply) ==
  HTTPException(reply.status, "W&B API error: ", Take(reply.text, ErrorTextLimit))

ErrorMessagesMutant(errors) ==
  [i \in 1..Len(errors.v) |-> Get(errors.v[i], "message", PyStr(<<>>))]
\* e.get("message", "Unknown error") for e in data.get("errors", [])
ErrorMessages(errors) ==
  [i \in 1..Len(errors.v) |-> Get(errors.v[i], "message", PyStr(UnknownError))]

\* lines 132-135 and 219-221, entered when "errors" in data
GraphQLError(data) ==
  LET errors == Get(data, "errors", PyList(<<>>))
  IN  IF errors.t \in {"dict", "str"} /\ Len(errors.v) = 0
        THEN HTTPException(400, "W&B GraphQL error: ", <<>>)
      ELSE IF errors.t # "list"
        \* None is not iterable; the keys or characters have no .get
        THEN ServerError(InterpreterMessage)
      ELSE IF \E i \in 1..Len(errors.v) : errors.v[i].t # "dict"
        THEN ServerError(InterpreterMessage)
      ELSE IF \E i \in 1..Len(errors.v) : ErrorMessages(errors)[i].t # "str"
        \* str.join accepts str items only
        THEN ServerError(InterpreterMessage)
      ELSE HTTPException(400, "W&B GraphQL error: ",
                         Join([i \in 1..Len(errors.v) |-> ErrorMessages(errors)[i].v]))

---------------------------------------------------------------------------
(* The try block of list_wandb_runs, lines 127-182, on the reply to its POST. *)
(* A reply is [kind, exc, status, text, json]: kind "raised" when          *)
(* requests.post raised an exception of text exc; otherwise a response of  *)
(* that status and body text, whose resp.json() is json.val, or raises an   *)
(* exception of text json.exc when json.ok is FALSE.                       *)

EmptyDict == PyDict(<<>>)

\* what `for e in x` runs over; ok is FALSE where the loop raises
Iterate(x) ==
  IF x.t = "list" THEN [ok |-> TRUE, items |-> x.v]
  ELSE IF x.t \in {"dict", "str"} /\ Len(x.v) = 0 THEN [ok |-> TRUE, items |-> <<>>]
  ELSE [ok |-> FALSE, items |-> <<>>]

\* lines 144-176 for one edge e whose node is a dict
RunSummary(e) ==
  LET n == Get(e, "node", EmptyDict)
      summary == DecodeSummary(Get(n, "summaryMetrics", PyNone))
  IN  PyDict(<< <<"id", Get(n, "id", PyNone)>>,
                <<"name", Get(n, "name", PyNone)>>,
                <<"displayName",
                  PyOr(Get(n, "displayName", PyNone), Get(n, "name", PyNone))>>,
                <<"state", Get(n, "state", PyNone)>>,
                <<"createdAt", Get(n, "createdAt", PyNone)>>,
                <<"updatedAt", Get(n, "updatedAt", PyNone)>>,
                <<"user",
                  Get(PyOr(Get(n, "user", PyNone), EmptyDict), "name", PyNone)>>,
                <<"notes", Get(n, "notes", PyNone)>>,
                <<"tags", PyOr(Get(n, "tags", PyNone), PyList(<<>>))>>,
                <<"metrics", SlimMetrics(summary)>> >>)

\* the loop body raises on an edge or node that is no dict, or a user that
\* is neither falsy nor a dict
EdgeRaises(e) ==
  \/ e.t # "dict"
  \/ Get(e, "node", EmptyDict).t # "dict"
  \/ PyOr(Get(Get(e, "node", EmptyDict), "user", PyNone), EmptyDict).t # "dict"

NotFound(text) == HTTPException(404, text, <<>>)

\* lines 137-178
ShapeProject(data) ==
  LET d == PyOr(Get(data, "data", EmptyDict), EmptyDict)
  IN  IF d.t # "dict" THEN ServerError(InterpreterMessage)
      ELSE LET project_data == Get(d, "project", PyNone)
      IN  IF ~Truthy(project_data)
            THEN NotFound("Project not found or access denied")
          ELSE IF project_data.t # "dict" THEN ServerError(InterpreterMessage)
          ELSE LET runs == Get(project_data, "runs", EmptyDict)
          IN  IF runs.t # "dict" THEN ServerError(InterpreterMessage)
              ELSE LET edges == Iterate(Get(runs, "edges", PyList(<<>>)))
                       entity == Get(project_data, "entity", EmptyDict)
              IN  IF ~edges.ok \/ \E i \in 1..Len(edges.items) : EdgeRaises(edges.items[i])
                    THEN ServerError(InterpreterMessage)
                  ELSE IF entity.t # "dict" THEN ServerError(InterpreterMessage)
                  ELSE Response(200,
                         PyDict(<< <<"project", Get(project_data, "name", PyNone)>>,
                                   <<"entity", Get(entity, "name", PyNone)>>,
                                   <<"count", PyInt(Len(edges.items))>>,
                                   <<"runs",
                                     PyList([i \in 1..Len(edges.items) |->
                                               RunSummary(edges.items[i])])>> >>))

\* "errors" in data: a key of a dict, a member of a list; raises on None
\* and numbers
ErrorsIn(data) ==
  IF data.t = "dict" THEN [ok |-> TRUE, found |-> HasKey(data, "errors")]
  ELSE IF data.t = "list" THEN [ok |-> TRUE, found |-> FALSE]
  ELSE [ok |-> FALSE, found |-> FALSE]

\* lines 127-182
ListRunsTry(reply) ==
  IF reply.kind = "raised" THEN ServerError(reply.exc)
  ELSE IF reply.status >= 400 THEN UpstreamError(reply)
  ELSE IF ~reply.json.ok THEN ServerError(reply.json.exc)
  ELSE IF ~ErrorsIn(reply.json.val).ok THEN ServerError(InterpreterMessage)
  ELSE IF ErrorsIn(reply.json.val).found THEN GraphQLError(reply.json.val)
  \* data.get on a list
  ELSE IF reply.json.val.t # "dict" THEN ServerError(InterpreterMessage)
  ELSE ShapeProject(reply.json.val)

\* lines 222-234
ShapeRun(data) ==
  LET d == PyOr(Get(data, "data", EmptyDict), EmptyDict)
  IN  IF d.t # "dict" THEN ServerError(InterpreterMessage)
      ELSE LET proj == Get(d, "project", PyNone)
      IN  IF ~Truthy(proj) THEN NotFound("Run not found")
          ELSE IF proj.t # "dict" THEN ServerError(InterpreterMessage)
          ELSE IF ~Truthy(Get(proj, "run", PyNone)) THEN NotFound("Run not found")
          ELSE LET run_node == Get(proj, "run", PyNone)
          IN  IF run_node.t # "dict" THEN ServerError(InterpreterMessage)
              ELSE Response(200,
                     PyDict(<< <<"run", run_node>>,
                               <<"summary",
                                 DecodeSummary(Get(run_node, "summaryMetrics", PyNone))>> >>))

\* lines 214-238
GetRunTry(reply) ==
  IF reply.kind = "raised" THEN ServerError(reply.exc)
  ELSE IF reply.status >= 400 THEN UpstreamError(reply)
  ELSE IF ~reply.json.ok THEN ServerError(reply.json.exc)
  ELSE IF ~ErrorsIn(reply.json.val).ok THEN ServerError(InterpreterMessage)
  ELSE IF ErrorsIn(reply.json.val).found THEN GraphQLError(reply.json.val)
  ELSE IF reply.json.val.t # "dict" THEN ServerError(InterpreterMessage)
  ELSE ShapeRun(reply.json.val)

---------------------------------------------------------------------------
(* test_database, lines 29-70.                                             *)
(* The database module is [import, exc, db]: import is "ImportError" or    *)
(* "Exception" (of text exc) when `from database import db` raises; db is  *)
(* PyNone or a handle [t |-> "handle", name, list, collections, exc]: name  *)
(* says whether the handle has a name attribute ("absent", "present") or   *)
(* reading it raises; list says whether list_collection_names() returns    *)
(* collections or raises; exc is the text of what the handle raises.       *)

InitialReport ==
  [backend |-> "Running",
   database |-> [msg |-> "Not Available", text |-> <<>>],
   database_url |-> "None",
   database_name |-> "None",
   connection_status |-> "Not Connected",
   collections |-> <<>>]

\* f"...: {str(e)[:50]}"
DiagError(msg, text) == [msg |-> msg, text |-> Take(text, DiagTextLimit)]

\* lines 41-64
ProbeDatabase(dbm) ==
  IF dbm.import = "ImportError"
    THEN [InitialReport EXCEPT
            !.database = [msg |-> "Database module not found (run enable-database first)",
                          text |-> <<>>]]
  ELSE IF dbm.import = "Exception"
    THEN [InitialReport EXCEPT !.database = DiagError("Error: ", dbm.exc)]
  ELSE IF dbm.db.t = "NoneType"
    THEN [InitialReport EXCEPT
            !.database = [msg |-> "Available but not initialized", text |-> <<>>]]
  ELSE IF dbm.db.name = "raises"
    \* line 48 raises after lines 46-47 ran; line 64 overwrites database
    THEN [InitialReport EXCEPT
            !.database = DiagError("Error: ", dbm.db.exc),
            !.database_url = "Configured"]
  ELSE IF dbm.db.list = "raises"
    THEN [InitialReport EXCEPT
            !.database = DiagError("Connected but Error: ", dbm.db.exc),
            !.database_url = "Configured",
            !.database_name = IF dbm.db.name = "present" THEN "db.name" ELSE "Connected",
            !.connection_status = "Connected"]
  ELSE [InitialReport EXCEPT
          !.database = [msg |-> "Connected & Working", text |-> <<>>],
          !.database_url = "Configured",
          !.database_name = IF dbm.db.name = "present" THEN "db.name" ELSE "Connected",
          !.connection_status = "Connected",
          !.collections = Take(dbm.db.collections, CollectionsShown)]

\* lines 66-70: the environment flags overwrite what the probe wrote
DiagnosticsReport(dbm, environ) ==
  [ProbeDatabase(dbm) EXCEPT
     !.database_url = IF Truthy(environ.DATABASE_URL) THEN "Set" ELSE "Not Set",
     !.database_name = IF Truthy(environ.DATABASE_NAME) THEN "Set" ELSE "Not Set"]

TestDatabaseResponseMutant(dbm, environ) ==
  IF dbm.import = "ok" /\ dbm.db.t = "handle" /\ dbm.db.name # "raises"
     /\ dbm.db.list = "raises"
    THEN HTTPException(500, "Internal Server Error", <<>>)
    ELSE Response(200, DiagnosticsReport(dbm, environ))
\* lines 29-70: every exception is caught, so the route answers 200
TestDatabaseResponse(dbm, environ) == Response(200, DiagnosticsReport(dbm, environ))

---------------------------------------------------------------------------
(* The inputs: the environment, the query parameters, the database module  *)
(* and the upstream's replies.                                             *)

\* os.getenv of a variable: None when unset, else its text
EnvValue(k) ==
  CASE k = "unset" -> PyNone
    [] k = "empty" -> PyStr(<<>>)
    [] OTHER -> PyStr(Txt(6))

Environments ==
  {[WANDB_API_KEY |-> EnvValue(k), DATABASE_URL |-> EnvValue(u),
    DATABASE_NAME |-> EnvValue(n)] :
     k \in {"unset", "empty", "set"}, u \in {"unset", "set"}, n \in {"empty", "set"}}

\* lengths of a text around the limit that cuts it
TextLens(limit) == {0, 1} \cup ((limit - 1)..(limit + MaxExtra))

\* a required str parameter: missing from the query, or given
StrParam(given) == IF given THEN PyStr(Txt(4)) ELSE PyNone

\* the limit parameter: omitted, text that is no integer, or an integer
Limits == ((LimitMin - LimitSpread)..LimitMin) \cup (LimitMax..(LimitMax + LimitSpread))
LimitParams == {PyNone, PyStr(Txt(3))} \cup {PyInt(n) : n \in Limits}

NoDatabase == [import |-> "none", exc |-> <<>>, db |-> PyNone]

Handle(name, list, ncollections, elen) ==
  [t |-> "handle", name |-> name, list |-> list,
   collections |-> [i \in 1..ncollections |-> i], exc |-> Txt(elen)]

NoReply ==
  [kind |-> "none", exc |-> <<>>, status |-> 0, text |-> <<>>,
   json |-> [ok |-> FALSE, val |-> PyNone, exc |-> <<>>]]

\* requests.post raised: a connection error, a timeout
RaisedReply(elen) == [NoReply EXCEPT !.kind = "raised", !.exc = Txt(elen)]

\* a response whose body is no JSON
TextReply(status, tlen, elen) ==
  [NoReply EXCEPT !.kind = "response", !.status = status, !.text = Txt(tlen),
                  !.json = [ok |-> FALSE, val |-> PyNone, exc |-> Txt(elen)]]

\* a response whose body is the JSON text of val
JsonReply(status, tlen, val) ==
  [NoReply EXCEPT !.kind = "response", !.status = status, !.text = Txt(tlen),
                  !.json = [ok |-> TRUE, val |-> val, exc |-> <<>>]]

---------------------------------------------------------------------------
(* The upstream's JSON bodies *)

\* json.dumps of a value that is an entry of a summary mapping
ValueToken(v) ==
  CASE v.t = "int" -> <<"int", v.v>>
    [] v.t = "float" -> <<"float", v.v>>
    [] v.t = "bool" -> IF v.v = 1 THEN <<"true", 0>> ELSE <<"false", 0>>
    [] v.t = "NoneType" -> <<"null", 0>>
    [] v.t = "str" -> <<"strlit", CHOOSE j \in StrLits : StrLitContent(j) = v.v>>
    [] v.t = "list" -> <<"array", Len(v.v)>>
    [] OTHER -> <<"object", Len(v.v)>>

\* json.dumps of a value; of a mapping: { key : value , ... }
JsonDumps(val) ==
  IF val.t # "dict" THEN <<ValueToken(val)>>
  ELSE <<TokLBrace>>
       \o [j \in 1..(4 * Len(val.v) - 1) |->
             CASE j % 4 = 1 -> <<"key", KeyIndex(val.v[(j + 3) \div 4][1])>>
               [] j % 4 = 2 -> TokColon
               [] j % 4 = 3 -> ValueToken(val.v[(j + 3) \div 4][2])
               [] OTHER -> TokComma]
       \o <<TokRBrace>>

\* the kinds of value a summary entry can have besides an integer
OddKinds == {"float", "bool", "str", "null", "list", "dict"}

OddValue(kind) ==
  CASE kind = "float" -> PyFloat(5)
    [] kind = "bool" -> PyBool(TRUE)
    [] kind = "str" -> PyStr(StrLitContent(1))
    [] kind = "null" -> PyNone
    [] kind = "list" -> TokenValue(<<"array", 2>>)
    [] OTHER -> TokenValue(<<"object", 1>>)

\* a summary mapping of n entries: integers, but for a value of the given
\* kind at position p (none when p = 0) and, when alt, at every even position
SummaryDict(n, p, kind, alt) ==
  PyDict([i \in 1..n |->
            <<MetricKeys[i],
              IF i = p \/ (alt /\ i % 2 = 0) THEN OddValue(kind) ELSE PyInt(i)>>])

\* how a summary mapping reaches the handler: as the mapping, as its JSON
\* text, or as that text cut short of its last token
Deliveries == {"dict", "json", "cut"}

Delivered(val, delivery) ==
  CASE delivery = "dict" -> val
    [] delivery = "json" -> PyStr(JsonDumps(val))
    [] OTHER -> PyStr(SubSeq(JsonDumps(val), 1, Len(JsonDumps(val)) - 1))

\* summaryMetrics values that are no mapping and no text of one
OtherSummaries ==
  <<PyNone, PyInt(3), PyList(<<>>), PyStr(<<>>), PyStr(<<TokJunk>>),
    PyStr(<<<<"int", 7>>>>), PyStr(<<<<"null", 0>>>>), PyStr(<<<<"true", 0>>>>),
    PyStr(<<<<"strlit", 1>>>>), PyStr(<<<<"strlit", 2>>>>),
    PyStr(<<<<"strlit", 3>>>>), PyStr(<<<<"array", 2>>>>),
    PyStr(<<TokLBrace, TokRBrace, TokRBrace>>)>>

\* a run node; a sparse one lacks what the handlers default
RunNode(summary, sparse) ==
  IF sparse
    THEN PyDict(<< <<"name", PyStr(Txt(3))>>, <<"user", PyNone>>,
                   <<"tags", PyNone>>, <<"summaryMetrics", summary>> >>)
    ELSE PyDict(<< <<"id", PyStr(Txt(2))>>, <<"name", PyStr(Txt(3))>>,
                   <<"displayName", PyStr(Txt(5))>>, <<"state", PyStr(Txt(1))>>,
                   <<"createdAt", PyStr(Txt(7))>>, <<"updatedAt", PyStr(Txt(8))>>,
                   <<"user", PyDict(<< <<"name", PyStr(Txt(4))>> >>)>>,
                   <<"notes", PyNone>>,
                   <<"tags", PyList(<<PyStr(Txt(1))>>)>>,
                   <<"summaryMetrics", summary>>,
                   <<"historyKeys", PyNone>> >>)

\* a run node without the summaryMetrics field
BareNode == PyDict(<< <<"name", PyStr(Txt(3))>> >>)

\* the project of the runs listing: nruns edges, the first with the summary
ProjectWithRuns(summary, sparse, nruns) ==
  PyDict(<< <<"id", PyStr(Txt(2))>>, <<"name", PyStr(Txt(4))>>,
            <<"entity", PyDict(<< <<"name", PyStr(Txt(4))>> >>)>>,
            <<"runs",
              PyDict(<< <<"edges",
                          PyList([i \in 1..nruns |->
                                    PyDict(<< <<"node",
                                                IF i = 1 THEN RunNode(summary, sparse)
                                                ELSE BareNode>> >>)])>> >>)>> >>)

\* the project of the single-run query
ProjectWithRun(run) == PyDict(<< <<"run", run>> >>)

\* a GraphQL body with data
DataBody(project) == PyDict(<< <<"data", PyDict(<< <<"project", project>> >>)>> >>)

\* bodies without a project or run, or of the wrong shape
MissingBodies ==
  <<EmptyDict,
    PyDict(<< <<"data", PyNone>> >>),
    DataBody(PyNone),
    DataBody(EmptyDict),
    DataBody(ProjectWithRun(PyNone)),
    PyDict(<< <<"data", PyList(<<PyInt(1)>>)>> >>),
    DataBody(PyInt(1)),
    DataBody(PyDict(<< <<"runs", PyNone>>, <<"run", PyInt(1)>> >>)),
    DataBody(PyDict(<< <<"name", PyStr(Txt(4))>>, <<"entity", PyNone>>,
                       <<"run", BareNode>> >>)),
    DataBody(PyDict(<< <<"runs", PyDict(<< <<"edges", PyList(<<PyNone>>)>> >>)>>,
                       <<"run", BareNode>> >>)),
    PyList(<<>>),
    PyNone>>

\* an entry of the errors array: with a message of mlen characters, without
\* a message, with a null message, or no object at all
ErrorEntry(shape, mlen) ==
  CASE shape = "message" -> PyDict(<< <<"message", PyStr(Txt(mlen))>>,
                                      <<"path", PyList(<<>>)>> >>)
    [] shape = "nomessage" -> PyDict(<< <<"path", PyList(<<>>)>> >>)
    [] shape = "nullmessage" -> PyDict(<< <<"message", PyNone>> >>)
    [] OTHER -> PyStr(Txt(mlen))

EntryShapes == {"message", "nomessage", "nullmessage", "text"}

\* an errors array of n entries with messages of mlen + i characters, but
\* for the entry at position p (none when p = 0), which has the given shape
ErrorsArray(n, p, shape, mlen) ==
  PyList([i \in 1..n |->
            IF i = p THEN ErrorEntry(shape, mlen) ELSE ErrorEntry("message", mlen + i)])

\* a GraphQL body with an errors field, and data too when withData
ErrorsBody(errors, withData) ==
  IF withData
    THEN PyDict(<< <<"errors", errors>>,
                   <<"data", PyDict(<< <<"project",
                        PyDict(<< <<"name", PyStr(Txt(4))>>,
                                  <<"run", BareNode>> >>)>> >>)>> >>)
    ELSE PyDict(<< <<"errors", errors>> >>)

---------------------------------------------------------------------------
(* The routes *)

\* statuses of an upstream response that is an HTTP error
ErrorStatuses == {400, 401, 404, 429, 500, 503}

\* lengths of a GraphQL error message
MessageLens == {0, 2, ErrorTextLimit + 1}

Request(route, entity, project, limit, run, dbm) ==
  [route |-> route, entity |-> entity, project |-> project, limit |-> limit,
   run |-> run, db |-> dbm]

\* a handler that ends without calling the upstream
Answer(response) ==
  /\ resp' = response
  /\ posts' = <<>>
  /\ upstream' = NoReply

\* line 128 and line 215: requests.post(WANDB_GQL_URL, json=payload, ...)
Post(variables) ==
  [url |-> "https://api.wandb.ai/graphql", variables |-> variables,
   authorization |-> env.WANDB_API_KEY, timeout |-> PostTimeout]

\* line 81: if not api_key
KeyMissingMutant(environ) == environ.WANDB_API_KEY.t = "NoneType"
KeyMissing(environ) == ~Truthy(environ.WANDB_API_KEY)

MissingKeyError ==
  HTTPException(400, "Server is missing WANDB_API_KEY env var", <<>>)

\* Query(..., ge=1, le=200) on limit; entity and project are required
RunsQueryValidMutant(entity, project, limit) ==
  /\ entity.t = "str"
  /\ project.t = "str"
  /\ limit.t \in {"NoneType", "int"}
RunsQueryValid(entity, project, limit) ==
  /\ entity.t = "str"
  /\ project.t = "str"
  /\ \/ limit.t = "NoneType"
     \/ limit.t = "int" /\ limit.v >= LimitMin /\ limit.v <= LimitMax

\* entity, project and run are required
RunQueryValid(entity, project, run) ==
  /\ entity.t = "str"
  /\ project.t = "str"
  /\ run.t = "str"

\* what the upstream may reply to either query
Replies ==
  {RaisedReply(n) : n \in TextLens(ErrorTextLimit)}
  \cup {TextReply(st, n, 9) : st \in ErrorStatuses, n \in TextLens(ErrorTextLimit)}
  \cup {JsonReply(st, n, ErrorsBody(ErrorsArray(1, 0, "message", 2), FALSE)) :
          st \in ErrorStatuses, n \in TextLens(ErrorTextLimit)}
  \cup {JsonReply(st, n, DataBody(ProjectWithRun(BareNode))) :
          st \in ErrorStatuses, n \in TextLens(ErrorTextLimit)}
  \cup {TextReply(200, 5, n) : n \in TextLens(ErrorTextLimit)}
  \cup {JsonReply(200, 9, MissingBodies[i]) : i \in 1..Len(MissingBodies)}
  \cup UNION {{JsonReply(200, 9, ErrorsBody(ErrorsArray(n, p, shape, mlen), withData)) :
                 p \in 0..n, shape \in EntryShapes, mlen \in MessageLens,
                 withData \in BOOLEAN} : n \in 0..MaxErrors}
  \cup {JsonReply(200, 9, ErrorsBody(PyNone, withData)) : withData \in BOOLEAN}

\* the summaryMetrics values the upstream may send
Summaries ==
  UNION {{Delivered(SummaryDict(n, p, kind, alt), d) :
            p \in 0..n, kind \in OddKinds, alt \in BOOLEAN, d \in Deliveries} :
           n \in 0..MaxEntries}
  \cup {OtherSummaries[i] : i \in 1..Len(OtherSummaries)}

\* what the upstream may reply to the runs listing: nruns edges, the first
\* with a summary, or no edge at all
RunsReplies ==
  Replies
  \cup {JsonReply(200, 9, DataBody(ProjectWithRuns(summary, nruns % 2 = 0, nruns))) :
          summary \in Summaries, nruns \in 1..MaxRuns}
  \cup {JsonReply(200, 9, DataBody(ProjectWithRuns(PyNone, FALSE, 0)))}

\* what the upstream may reply to the single-run query
RunReplies ==
  Replies
  \cup {JsonReply(200, 9, DataBody(ProjectWithRun(RunNode(summary, sparse)))) :
          summary \in Summaries, sparse \in BOOLEAN}

NoRequest == Request("", PyNone, PyNone, PyNone, PyNone, NoDatabase)

\* no request is being handled: the worker waits for one
Idle == req = NoRequest

\* GET /
ReadRoot ==
  /\ Idle
  /\ req' = Request("/", PyNone, PyNone, PyNone, PyNone, NoDatabase)
  /\ Answer(Response(200, "Hello from FastAPI Backend!"))
  /\ UNCHANGED env

\* GET /api/hello
Hello ==
  /\ Idle
  /\ req' = Request("/api/hello", PyNone, PyNone, PyNone, PyNone, NoDatabase)
  /\ Answer(Response(200, "Hello from the backend API!"))
  /\ UNCHANGED env

\* GET /test
TestDatabase ==
  LET Handled(dbm) ==
        /\ req' = Request("/test", PyNone, PyNone, PyNone, PyNone, dbm)
        /\ Answer(TestDatabaseResponse(dbm, env))
  IN  /\ Idle
      /\ \/ Handled([import |-> "ImportError", exc |-> Txt(30), db |-> PyNone])
         \/ \E n \in TextLens(DiagTextLimit) :
              Handled([import |-> "Exception", exc |-> Txt(n), db |-> PyNone])
         \/ Handled([import |-> "ok", exc |-> <<>>, db |-> PyNone])
         \/ \E name \in {"absent", "present", "raises"}, list \in {"ok", "raises"},
               nc \in {0} \cup ((CollectionsShown - 1)..(CollectionsShown + MaxExtra)),
               n \in TextLens(DiagTextLimit) :
              Handled([import |-> "ok", exc |-> <<>>, db |-> Handle(name, list, nc, n)])
      /\ UNCHANGED env

\* GET /api/wandb/runs
ListWandbRuns ==
  \E entity \in {StrParam(FALSE), StrParam(TRUE)},
     project \in {StrParam(FALSE), StrParam(TRUE)},
     limit \in LimitParams :
    LET first == IF limit.t = "NoneType" THEN DefaultLimit ELSE limit.v
        Deliver(reply) ==
          /\ posts' = <<Post([entity |-> entity, project |-> project, first |-> first])>>
          /\ upstream' = reply
          /\ resp' = ListRunsTry(reply)
    IN  /\ Idle
        /\ req' = Request("/api/wandb/runs", entity, project, limit, PyNone, NoDatabase)
        /\ IF ~RunsQueryValid(entity, project, limit) THEN Answer(ValidationError)
           ELSE IF KeyMissing(env) THEN Answer(MissingKeyError)
           ELSE \E reply \in RunsReplies : Deliver(reply)
        /\ UNCHANGED env

\* GET /api/wandb/run
GetWandbRun ==
  \E entity \in {StrParam(FALSE), StrParam(TRUE)},
     project \in {StrParam(FALSE), StrParam(TRUE)},
     run \in {StrParam(FALSE), StrParam(TRUE)} :
    LET Deliver(reply) ==
          /\ posts' = <<Post([entity |-> entity, project |-> project, run |-> run])>>
          /\ upstream' = reply
          /\ resp' = GetRunTry(reply)
    IN  /\ Idle
        /\ req' = Request("/api/wandb/run", entity, project, PyNone, run, NoDatabase)
        /\ IF ~RunQueryValid(entity, project, run) THEN Answer(ValidationError)
           ELSE IF KeyMissing(env) THEN Answer(MissingKeyError)
           ELSE \E reply \in RunReplies : Deliver(reply)
        /\ UNCHANGED env

\* the response is sent and the request's values are dropped; nothing of a
\* request outlives it
Finish ==
  /\ ~Idle
  /\ req' = NoRequest
  /\ upstream' = NoReply
  /\ posts' = <<>>
  /\ resp' = Response(0, PyNone)
  /\ UNCHANGED env

Init ==
  /\ env \in Environments
  /\ req = NoRequest
  /\ upstream = NoReply
  /\ posts = <<>>
  /\ resp = Response(0, PyNone)

Next ==
  \/ ReadRoot
  \/ Hello
  \/ TestDatabase
  \/ ListWandbRuns
  \/ GetWandbRun
  \/ Finish

Spec == Init /\ [][Next]_vars

---------------------------------------------------------------------------
(* The claims.  Each is a predicate of the state a handler leaves: the     *)
(* request, the upstream's reply, the POSTs issued and the response.       *)

IsProxy == req.route \in {"/api/wandb/runs", "/api/wandb/run"}

\* the WANDB_API_KEY secret is unset or empty
KeyAbsent == env.WANDB_API_KEY = PyNone \/ env.WANDB_API_KEY = PyStr(<<>>)

\* the query parameters are ones the framework accepts for the route
QueryAccepted ==
  /\ req.entity # PyNone
  /\ req.project # PyNone
  /\ req.route = "/api/wandb/run" => req.run # PyNone
  /\ req.route = "/api/wandb/runs" =>
       \/ req.limit = PyNone
       \/ req.limit.t = "int" /\ req.limit.v \in 1..200

\* the upstream answered the POST with an HTTP response
Replied == posts # <<>> /\ upstream.kind = "response"

\* C1 as claimed: with the secret absent, both proxy routes end with HTTP
\* 400 and issue no POST, whatever the query parameters are.
C1_Original ==
  IsProxy /\ KeyAbsent => resp.status = 400 /\ posts = <<>>

\* C1 as amended: with the secret absent, a proxy route never issues a POST;
\* it ends with HTTP 400 (missing WANDB_API_KEY) when the query parameters
\* pass validation and with the framework's 422 when they do not.
C1_MissingKey ==
  IsProxy /\ KeyAbsent =>
    /\ posts = <<>>
    /\ upstream = NoReply
    /\ IF QueryAccepted
         THEN /\ resp.status = 400
              /\ resp.detail.prefix = "Server is missing WANDB_API_KEY env var"
         ELSE resp.status = 422

C1_Witness ==
  /\ IsProxy
  /\ env.WANDB_API_KEY = PyStr(<<>>)
  /\ QueryAccepted
  /\ resp.status = 400
  /\ posts = <<>>

LimitOutOfRange ==
  /\ req.route = "/api/wandb/runs"
  /\ req.limit.t = "int"
  /\ (req.limit.v < 1 \/ req.limit.v > 200)

\* C2 as claimed: a limit outside [1,200] on the runs listing is answered
\* with HTTP 400 without running the handler body; a limit inside the
\* range, or omitted, is no validation failure.
C2_Original ==
  /\ LimitOutOfRange => resp.status = 400 /\ posts = <<>>
  /\ req.route = "/api/wandb/runs" /\ QueryAccepted => resp.status # 422

\* C2 as amended: a limit outside [1,200] is answered with the framework's
\* validation failure, HTTP 422, never a 5xx and never the handler's own
\* missing-secret 400, and no POST is issued; with entity and project given,
\* a limit inside the range or omitted (then 25 is sent upstream) is no
\* validation failure.
C2_LimitValidation ==
  /\ LimitOutOfRange =>
       /\ resp.status = 422
       /\ resp.detail.prefix = "validation error"
       /\ posts = <<>>
       /\ upstream = NoReply
  /\ req.route = "/api/wandb/runs" /\ QueryAccepted =>
       /\ resp.status # 422
       /\ posts # <<>> =>
            posts[1].variables.first = IF req.limit = PyNone THEN 25 ELSE req.limit.v

C2_Witness ==
  /\ LimitOutOfRange
  /\ req.limit.v > 200
  /\ req.entity # PyNone
  /\ req.project # PyNone
  /\ KeyAbsent
  /\ resp.status = 422

\* the errors field of the reply's decoded body
UpstreamErrors == Get(upstream.json.val, "errors", PyNone)

\* the reply has a status below 400 and a decoded body with an errors field
HasErrorsField ==
  /\ IsProxy
  /\ Replied
  /\ upstream.status < 400
  /\ upstream.json.ok
  /\ upstream.json.val.t = "dict"
  /\ HasKey(upstream.json.val, "errors")

\* the errors field is a non-empty array of GraphQL error objects: each has
\* a string message or none
GraphQLErrorsReported ==
  /\ HasErrorsField
  /\ UpstreamErrors.t = "list"
  /\ Len(UpstreamErrors.v) > 0
  /\ \A i \in 1..Len(UpstreamErrors.v) :
       /\ UpstreamErrors.v[i].t = "dict"
       /\ HasKey(UpstreamErrors.v[i], "message") =>
            Get(UpstreamErrors.v[i], "message", PyNone).t = "str"

\* the message the i-th error entry contributes
C3_Message(i) ==
  IF HasKey(UpstreamErrors.v[i], "message")
    THEN Get(UpstreamErrors.v[i], "message", PyNone).v
    ELSE Chars(<<85, 110, 107, 110, 111, 119, 110, 32, 101, 114, 114, 111, 114>>)

RECURSIVE C3_Joined(_)
\* the messages of the first i entries, in upstream order, joined by "; "
C3_Joined(i) ==
  IF i = 0 THEN <<>>
  ELSE IF i = 1 THEN C3_Message(1)
  ELSE C3_Joined(i - 1) \o <<<<"c", 59>>, <<"c", 32>>>> \o C3_Message(i)

Field(d, k) ==
  IF d.t = "dict" /\ Get(d, k, PyNone).t = "dict" THEN Get(d, k, PyNone) ELSE EmptyDict

\* the project of the reply's decoded body
UpstreamProject == Field(Field(upstream.json.val, "data"), "project")

\* the runs listing answered 200
ListingReturned == req.route = "/api/wandb/runs" /\ resp.status = 200

\* the edges of the upstream's project, and the runs of the response
UpstreamEdges == Get(Field(UpstreamProject, "runs"), "edges", PyList(<<>>)).v
ReturnedRuns == Get(resp.body, "runs", PyList(<<>>)).v

\* the summaryMetrics the upstream sent for the i-th run, and the metrics
\* returned for it
SentSummary(i) ==
  Get(Get(UpstreamEdges[i], "node", EmptyDict), "summaryMetrics", PyNone)
ReturnedMetrics(i) == Get(ReturnedRuns[i], "metrics", PyNone)

\* a JSON number: an integer or a floating-point number
IsNumber(v) == v.t \in {"int", "float"}

RECURSIVE C4_Numbers(_)
\* the entries of a mapping whose value is a number, in the mapping's order
C4_Numbers(items) ==
  IF Len(items) = 0 THEN <<>>
  ELSE IF IsNumber(Head(items)[2]) THEN <<Head(items)>> \o C4_Numbers(Tail(items))
  ELSE C4_Numbers(Tail(items))

\* C4 as claimed: for a run whose decoded summary is a mapping, metrics is
\* the first 12 (or all, if fewer) of the mapping's numeric-valued entries,
\* in the mapping's order with the values unchanged.
C4_Original ==
  ListingReturned =>
    \A i \in 1..Len(ReturnedRuns) :
      DecodeSummary(SentSummary(i)).t = "dict" =>
        /\ Len(ReturnedMetrics(i).v) <= 12
        /\ ReturnedMetrics(i).v =
             SubSeq(C4_Numbers(DecodeSummary(SentSummary(i)).v), 1,
                    Min(12, Len(C4_Numbers(DecodeSummary(SentSummary(i)).v))))

\* C5 as claimed: every value of every run's metrics is an integer or a
\* floating-point number; strings, booleans, nulls, lists and objects of
\* the upstream summary never appear.
C5_Original ==
  ListingReturned =>
    \A i \in 1..Len(ReturnedRuns) :
      \A j \in 1..Len(ReturnedMetrics(i).v) : IsNumber(ReturnedMetrics(i).v[j][2])

\* the reply is a decoded body of status < 400 without an errors field
DataReplied ==
  /\ IsProxy
  /\ Replied
  /\ upstream.status < 400
  /\ upstream.json.ok
  /\ upstream.json.val.t = "dict"
  /\ ~HasKey(upstream.json.val, "errors")

\* the reply to the runs listing is a project whose edges are run nodes
RunsReplied ==
  /\ req.route = "/api/wandb/runs"
  /\ DataReplied
  /\ Get(Field(UpstreamProject, "runs"), "edges", PyList(<<>>)).t = "list"
  /\ \A i \in 1..Len(UpstreamEdges) :
       UpstreamEdges[i].t = "dict" /\ Get(UpstreamEdges[i], "node", PyNone).t = "dict"

\* the reply to the single-run query is a project with a run node
RunReplied ==
  /\ req.route = "/api/wandb/run"
  /\ DataReplied
  /\ Len(Field(UpstreamProject, "run").v) > 0

\* the run node the upstream sent, its summaryMetrics, the summary returned
SentRun == Field(UpstreamProject, "run")
SentRunSummary == Get(SentRun, "summaryMetrics", PyNone)
ReturnedSummary == Get(resp.body, "summary", PyNone)

\* the node with v as its summaryMetrics
WithSummary(node, v) == PyDict(DictSet(node.v, "summaryMetrics", v))

\* the metrics of the i-th run, had the upstream sent v as its summaryMetrics
DirectMetrics(i, v) ==
  Get(RunSummary(PyDict(<< <<"node",
                             WithSummary(Get(UpstreamEdges[i], "node", EmptyDict), v)>> >>)),
      "metrics", PyNone)

\* the summary returned, had the upstream sent v as the run's summaryMetrics
DirectSummary(v) ==
  Get(ShapeRun(DataBody(ProjectWithRun(WithSummary(SentRun, v)))).body,
      "summary", PyNone)

\* C6 for the i-th run of the listing; a decoded value that is itself a
\* str is compared with its direct delivery only when strToo
C6_Listing(i, strToo) ==
  SentSummary(i).t = "str" =>
    /\ resp.status = 200
    /\ IF JsonLoads(SentSummary(i).v).ok
         THEN strToo \/ JsonLoads(SentSummary(i).v).val.t # "str" =>
                ReturnedMetrics(i) = DirectMetrics(i, JsonLoads(SentSummary(i).v).val)
         ELSE ReturnedMetrics(i) = EmptyDict

\* C6 for the single run
C6_Single(strToo) ==
  SentRunSummary.t = "str" =>
    /\ resp.status = 200
    /\ IF JsonLoads(SentRunSummary.v).ok
         THEN /\ ReturnedSummary = JsonLoads(SentRunSummary.v).val
              /\ strToo \/ JsonLoads(SentRunSummary.v).val.t # "str" =>
                   ReturnedSummary = DirectSummary(JsonLoads(SentRunSummary.v).val)
         ELSE ReturnedSummary = PyNone

\* C6 as claimed: a summaryMetrics string of valid JSON gives the metrics
\* its decoded value gives when the upstream sends that value directly; one
\* of invalid JSON gives absent metrics (empty metrics in the listing, a
\* null summary for the single run), and the request succeeds with 200.
C6_Original ==
  /\ RunsReplied => \A i \in 1..Len(UpstreamEdges) : C6_Listing(i, TRUE)
  /\ RunReplied => C6_Single(TRUE)

\* C6 as amended: as claimed, except that a string decoding to a value
\* that is itself a string is used as decoded once, which is not what the
\* direct delivery of that string gives (it would be decoded again).
C6_StringSummary ==
  /\ RunsReplied => \A i \in 1..Len(UpstreamEdges) : C6_Listing(i, FALSE)
  /\ RunReplied => C6_Single(FALSE)

\* a mapping of more than 12 entries arrived as JSON text and was decoded
C6_Witness ==
  /\ RunsReplied
  /\ Len(UpstreamEdges) > 0
  /\ SentSummary(1).t = "str"
  /\ JsonLoads(SentSummary(1).v).ok
  /\ JsonLoads(SentSummary(1).v).val.t = "dict"
  /\ Len(ReturnedMetrics(1).v) = 12
  /\ resp.status = 200

\* the database module the diagnostics request met
DbHandle == req.db.import = "ok" /\ req.db.db.t = "handle"

\* C7: GET /test answers 200 with the fixed-shape report in every state of
\* the database module: the import raises ImportError or another
\* exception, the handle is null, listing the collections succeeds or
\* raises; the failure shows in the report's fields, not as an error.
C7_DiagnosticsAlways200 ==
  req.route = "/test" =>
    /\ resp.status = 200
    /\ resp.detail = NoDetail
    /\ DOMAIN resp.body = {"backend", "database", "database_url", "database_name",
                           "connection_status", "collections"}
    /\ resp.body.backend = "Running"
    /\ resp.body.database_url \in {"Set", "Not Set"}
    /\ resp.body.database_name \in {"Set", "Not Set"}
    /\ req.db.import = "ImportError" =>
         resp.body.database.msg = "Database module not found (run enable-database first)"
    /\ req.db.import = "Exception" => resp.body.database.msg = "Error: "
    /\ req.db.import = "ok" /\ req.db.db = PyNone =>
         resp.body.database.msg = "Available but not initialized"
    /\ DbHandle /\ req.db.db.name # "raises" /\ req.db.db.list = "ok" =>
         /\ resp.body.database.msg = "Connected & Working"
         /\ Len(resp.body.collections) <= 10
    /\ DbHandle /\ req.db.db.name # "raises" /\ req.db.db.list = "raises" =>
         /\ resp.body.database.msg = "Connected but Error: "
         /\ resp.body.collections = <<>>

C7_Witness ==
  /\ req.route = "/test"
  /\ DbHandle
  /\ req.db.db.name = "present"
  /\ req.db.db.list = "raises"
  /\ Len(req.db.db.exc) > 50
  /\ resp.status = 200

\* C8: an upstream response of status s >= 400 ends the route with status
\* s and a detail holding the first 200 characters of the upstream body,
\* whatever the body is: the status test comes before the GraphQL-error,
\* not-found and server-error outcomes.
C8_UpstreamStatusPassthrough ==
  IsProxy /\ Replied /\ upstream.status >= 400 =>
    /\ resp.status = upstream.status
    /\ resp.detail.prefix = "W&B API error: "
    /\ Len(resp.detail.text) = Min(200, Len(upstream.text))
    /\ \A i \in 1..Len(resp.detail.text) : resp.detail.text[i] = upstream.text[i]
    /\ resp.body = PyNone

C8_Witness ==
  /\ IsProxy
  /\ Replied
  /\ upstream.status = 404
  /\ upstream.json.ok
  /\ HasKey(upstream.json.val, "errors")
  /\ Len(upstream.text) > 200
  /\ resp.status = 404
  /\ Len(resp.detail.text) = 200

\* C9 as claimed: every error detail of the proxy routes holds at most 200
\* characters of upstream or exception text, and every error description
\* of the diagnostics report at most 50.
C9_Original ==
  /\ IsProxy /\ resp.status >= 400 => Len(resp.detail.text) <= 200
  /\ req.route = "/test" => Len(resp.body.database.text) <= 50

\* C10 as claimed: a reply of status < 400 whose errors field is an empty
\* list, together with project (or run) data, is not failed as a GraphQL
\* error but shaped and returned with HTTP 200.
C10_Original ==
  /\ HasErrorsField
  /\ UpstreamErrors = PyList(<<>>)
  /\ Len(UpstreamProject.v) > 0
  => resp.status = 200

====
